---- MODULE Spec2Model ----
(***************************************************************************)
(* Model of src/index.js: the WhatsApp auto-responder.                     *)
(*                                                                         *)
(* State: the process-scope variables of index.js (repliedNumbers,         *)
(* latestQRCode, isReady, isInitializing, reconnectAttempts), the          *)
(* persisted file DATA_FILE, and the asynchronous work the handlers leave  *)
(* behind when they suspend or return: reply sends awaited by message      *)
(* handlers, QR images awaited by qr handlers, reconnect timers, and       *)
(* client.initialize() promises.  One action per handler step: the code    *)
(* between two awaits runs to completion on the Node event loop, so it is  *)
(* one atomic step; the continuation after an await is its own step.       *)
(***************************************************************************)
EXTENDS Integers, Sequences, FiniteSets, Bags, TLC

VARIABLES
    phase,              \* "running" | "shutting" (awaiting client.destroy()) | "exited" | "crashed"
    exitCode,           \* process.exit code, -1 while the process is alive
    file,               \* DATA_FILE: [exists, text]
    repliedNumbers,     \* index.js:45
    pendingReplies,     \* bag of senders whose handler is suspended at `await msg.reply`
    repliesSent,        \* per sender: reply sends that completed successfully in this process run
    lastWrite,          \* "ok" | "failed": the last write of the file in this run; "none" before any
    latestQRCode,       \* index.js:35
    isReady,            \* index.js:36
    isInitializing,     \* index.js:37
    reconnectAttempts,  \* index.js:38
    pendingQR,          \* bag of qr payloads whose handler is suspended at `await qrcode.toDataURL`
    timers,             \* delays of the setTimeout callbacks not yet fired, in the order scheduled
    initsInFlight,      \* client.initialize() promises not yet settled
    lastDelay,          \* delay of the most recently scheduled reconnect timer in this run (0: none)
    reachedMax,         \* the counter has been at MAX_RECONNECT_ATTEMPTS at some point of this run
    lastStatus,         \* the status-changing event emitted last in this run: "qr" | "ready" |
                        \* "auth_failure" | "disconnected"; "none" before any
    lastEvent           \* the handler step that ran last: [name, from]

storeVars   == <<file, repliedNumbers, pendingReplies, repliesSent, lastWrite>>
sessionVars == <<latestQRCode, isReady, isInitializing, reconnectAttempts>>
asyncVars   == <<pendingQR, timers, initsInFlight>>
ghostVars   == <<lastDelay, reachedMax, lastStatus>>
vars == <<phase, exitCode, storeVars, sessionVars, asyncVars, ghostVars, lastEvent>>

---------------------------------------------------------------------------
(* Program constants *)

MAX_RECONNECT_ATTEMPTS == 5
RECONNECT_DELAY == 10000

(* Bounds of the model *)

MaxStore == 3        \* entries of repliedNumbers plus reply sends in flight
MaxPendingQR == 1    \* qr handlers suspended at toDataURL
MaxTimers == 2       \* reconnect timers not yet fired
MaxInits == 2        \* client.initialize() promises not yet settled

---------------------------------------------------------------------------
(* Correspondent ids: a serialized id "user@server" as the token sequence  *)
(* <<user, "@server">>, so that the suffix test is computed, not assumed.  *)

Private1 == <<"2348012345678", "@c.us">>
Private2 == <<"2348099999999", "@c.us">>
Group1 == <<"123-456", "@g.us">>
StatusBroadcast == <<"status", "@broadcast">>

Senders == {Private1, Private2, Group1, StatusBroadcast}
QRPayloads == {"qr1"}

\* String.prototype.endsWith
EndsWith(s, suffix) ==
    /\ Len(s) >= Len(suffix)
    /\ SubSeq(s, Len(s) - Len(suffix) + 1, Len(s)) = suffix

\* Array.prototype.includes
Includes(arr, x) == \E i \in 1..Len(arr) : arr[i] = x

Event(name, from) == [name |-> name, from |-> from]

---------------------------------------------------------------------------
(* The persisted file.  Its text is a token sequence: JSON.stringify of an *)
(* array is "[" , the elements, "]"; JSON.parse accepts exactly such a     *)
(* text and throws on anything else (an empty or cut-off file).            *)

JSONStringify(arr) == << <<"[">> >> \o arr \o << <<"]">> >>

JSONWellFormed(text) ==
    /\ Len(text) >= 2
    /\ text[1] = <<"[">>
    /\ text[Len(text)] = <<"]">>
    /\ \A i \in 2..(Len(text) - 1) : text[i] \notin {<<"[">>, <<"]">>}

JSONParse(text) == SubSeq(text, 2, Len(text) - 1)

NoFile == [exists |-> FALSE, text |-> <<>>]
FileWith(text) == [exists |-> TRUE, text |-> text]

\* fs.writeFileSync: it succeeds, or fails before touching the file (the open
\* fails), or fails after the open truncated the file (the write fails).
WriteOutcomes == {"ok", "open_failed", "write_failed"}

writeFileSync(f, text, outcome) ==
    CASE outcome = "ok" -> FileWith(text)
      [] outcome = "open_failed" -> f
      [] outcome = "write_failed" -> FileWith(<<>>)

\* Mutant of saveRepliedNumbers: the save runs before the push, so the file
\* misses the newest element.
saveRepliedNumbersStale(f, arr, outcome) ==
    writeFileSync(f, JSONStringify(SubSeq(arr, 1, Len(arr) - 1)), outcome)

\* saveRepliedNumbers: the catch swallows a failed write; the result is the file.
saveRepliedNumbers(f, arr, outcome) == writeFileSync(f, JSONStringify(arr), outcome)

WriteResult(outcome) == IF outcome = "ok" THEN "ok" ELSE "failed"

\* Mutant of loadRepliedNumbers: no try/catch around the read and the parse.
loadRepliedNumbersNoCatch(f) ==
    IF f.exists
    THEN IF JSONWellFormed(f.text)
         THEN [store |-> JSONParse(f.text), raised |-> FALSE]
         ELSE [store |-> <<>>, raised |-> TRUE]
    ELSE [store |-> <<>>, raised |-> FALSE]

\* loadRepliedNumbers, run on the initial repliedNumbers = []: the array it
\* leaves, and whether an exception escaped to the caller.
loadRepliedNumbers(f) ==
    IF f.exists
    THEN IF JSONWellFormed(f.text)
         THEN [store |-> JSONParse(f.text), raised |-> FALSE]
         ELSE [store |-> <<>>, raised |-> FALSE]
    ELSE [store |-> <<>>, raised |-> FALSE]

---------------------------------------------------------------------------
(* Process start: the top-level code of index.js runs synchronously:       *)
(* load the store, register the handlers, isInitializing = true,           *)
(* client.initialize().  An exception escaping loadRepliedNumbers would    *)
(* end the process there (no uncaughtException handler is registered yet). *)

StartState(f) ==
    LET l == loadRepliedNumbers(f) IN
    [ phase |-> IF l.raised THEN "crashed" ELSE "running",
      exitCode |-> IF l.raised THEN 1 ELSE -1,
      repliedNumbers |-> l.store,
      isInitializing |-> ~l.raised,
      initsInFlight |-> IF l.raised THEN 0 ELSE 1 ]

InitialFiles ==
    { NoFile,
      FileWith(<< <<"[">>, Private1 >>),
      FileWith(JSONStringify(<<>>)),
      FileWith(JSONStringify(<<Private1>>)) }

NoReplies == [s \in Senders |-> 0]

Init ==
    /\ file \in InitialFiles
    /\ phase = StartState(file).phase
    /\ exitCode = StartState(file).exitCode
    /\ repliedNumbers = StartState(file).repliedNumbers
    /\ pendingReplies = EmptyBag
    /\ repliesSent = NoReplies
    /\ lastWrite = "none"
    /\ latestQRCode = <<>>
    /\ isReady = FALSE
    /\ isInitializing = StartState(file).isInitializing
    /\ reconnectAttempts = 0
    /\ pendingQR = EmptyBag
    /\ timers = <<>>
    /\ initsInFlight = StartState(file).initsInFlight
    /\ lastDelay = 0
    /\ reachedMax = FALSE
    /\ lastStatus = "none"
    /\ lastEvent = Event("start", <<>>)

\* The process is killed or has ended, and is started again on the same file.
Restart ==
    /\ phase' = StartState(file).phase
    /\ exitCode' = StartState(file).exitCode
    /\ repliedNumbers' = StartState(file).repliedNumbers
    /\ pendingReplies' = EmptyBag
    /\ repliesSent' = NoReplies
    /\ lastWrite' = "none"
    /\ latestQRCode' = <<>>
    /\ isReady' = FALSE
    /\ isInitializing' = StartState(file).isInitializing
    /\ reconnectAttempts' = 0
    /\ pendingQR' = EmptyBag
    /\ timers' = <<>>
    /\ initsInFlight' = StartState(file).initsInFlight
    /\ lastDelay' = 0
    /\ reachedMax' = FALSE
    /\ lastStatus' = "none"
    /\ lastEvent' = Event("start", <<>>)
    /\ UNCHANGED file

Alive == phase \in {"running", "shutting"}

---------------------------------------------------------------------------
(* The message handler *)

\* Mutant of messageDecision: the membership test is missing.
messageDecisionNoDedup(sender, arr) ==
    IF EndsWith(sender, <<"@g.us">>) THEN "group"
    ELSE IF sender = StatusBroadcast THEN "broadcast"
    ELSE "send"

\* Mutant of messageDecision: the group test is missing.
messageDecisionNoGroupCheck(sender, arr) ==
    IF sender = StatusBroadcast THEN "broadcast"
    ELSE IF ~Includes(arr, sender) THEN "send"
    ELSE "existing"

\* The synchronous part of the handler, up to `await msg.reply`: what it does
\* with a message from `sender` when the store is `arr`.
messageDecision(sender, arr) ==
    IF EndsWith(sender, <<"@g.us">>) THEN "group"
    ELSE IF sender = StatusBroadcast THEN "broadcast"
    ELSE IF ~Includes(arr, sender) THEN "send"
    ELSE "existing"

Message(sender) ==
    /\ Alive
    /\ IF messageDecision(sender, repliedNumbers) = "send"
       THEN /\ Len(repliedNumbers) + BagCardinality(pendingReplies) < MaxStore
            /\ pendingReplies' = pendingReplies (+) SetToBag({sender})
       ELSE UNCHANGED pendingReplies
    /\ lastEvent' = Event("message", sender)
    /\ UNCHANGED <<phase, exitCode, file, repliedNumbers, repliesSent, lastWrite,
                   sessionVars, asyncVars, ghostVars>>

\* What the continuation after a successful send does to the store.
markReplied(arr, sender) == Append(arr, sender)

\* msg.reply resolved: the handler resumes, pushes and saves.
ReplyOk(sender, outcome) ==
    /\ Alive
    /\ BagIn(sender, pendingReplies)
    /\ pendingReplies' = pendingReplies (-) SetToBag({sender})
    /\ repliesSent' = [repliesSent EXCEPT ![sender] = @ + 1]
    /\ repliedNumbers' = markReplied(repliedNumbers, sender)
    /\ file' = saveRepliedNumbers(file, repliedNumbers', outcome)
    /\ lastWrite' = WriteResult(outcome)
    /\ lastEvent' = Event("reply_ok", sender)
    /\ UNCHANGED <<phase, exitCode, sessionVars, asyncVars, ghostVars>>

\* Mutant of ReplyFail: the sender is marked although the send failed.
ReplyFailMarks(sender) ==
    /\ Alive
    /\ BagIn(sender, pendingReplies)
    /\ pendingReplies' = pendingReplies (-) SetToBag({sender})
    /\ repliedNumbers' = markReplied(repliedNumbers, sender)
    /\ lastEvent' = Event("reply_fail", sender)
    /\ UNCHANGED <<phase, exitCode, file, repliesSent, lastWrite,
                   sessionVars, asyncVars, ghostVars>>

\* msg.reply rejected: the catch logs it.
ReplyFail(sender) ==
    /\ Alive
    /\ BagIn(sender, pendingReplies)
    /\ pendingReplies' = pendingReplies (-) SetToBag({sender})
    /\ lastEvent' = Event("reply_fail", sender)
    /\ UNCHANGED <<phase, exitCode, file, repliedNumbers, repliesSent, lastWrite,
                   sessionVars, asyncVars, ghostVars>>

---------------------------------------------------------------------------
(* Process-level handlers *)

\* Mutant of Signal: destroy is requested without saving the store first.
SignalNoSave(outcome) ==
    /\ Alive
    /\ phase' = "shutting"
    /\ lastEvent' = Event("signal", <<>>)
    /\ UNCHANGED <<exitCode, storeVars, sessionVars, asyncVars, ghostVars>>

\* SIGTERM / SIGINT, up to `await client.destroy()`.
Signal(outcome) ==
    /\ Alive
    /\ file' = saveRepliedNumbers(file, repliedNumbers, outcome)
    /\ lastWrite' = WriteResult(outcome)
    /\ phase' = "shutting"
    /\ lastEvent' = Event("signal", <<>>)
    /\ UNCHANGED <<exitCode, repliedNumbers, pendingReplies, repliesSent,
                   sessionVars, asyncVars, ghostVars>>

DestroyOk ==
    /\ phase = "shutting"
    /\ phase' = "exited"
    /\ exitCode' = 0
    /\ lastEvent' = Event("destroy_ok", <<>>)
    /\ UNCHANGED <<storeVars, sessionVars, asyncVars, ghostVars>>

DestroyFail ==
    /\ phase = "shutting"
    /\ phase' = "exited"
    /\ exitCode' = 1
    /\ lastEvent' = Event("destroy_fail", <<>>)
    /\ UNCHANGED <<storeVars, sessionVars, asyncVars, ghostVars>>

UncaughtException(outcome) ==
    /\ Alive
    /\ file' = saveRepliedNumbers(file, repliedNumbers, outcome)
    /\ lastWrite' = WriteResult(outcome)
    /\ lastEvent' = Event("uncaughtException", <<>>)
    /\ UNCHANGED <<phase, exitCode, repliedNumbers, pendingReplies, repliesSent,
                   sessionVars, asyncVars, ghostVars>>

---------------------------------------------------------------------------
(* Session lifecycle handlers *)

\* qrcode.toDataURL
toDataURL(qr) == <<"data:image/png;base64", qr>>

\* The qr handler up to `await qrcode.toDataURL(qr)`.
Qr(qr) ==
    /\ Alive
    /\ BagCardinality(pendingQR) < MaxPendingQR
    /\ pendingQR' = pendingQR (+) SetToBag({qr})
    /\ lastStatus' = "qr"
    /\ lastEvent' = Event("qr", <<>>)
    /\ UNCHANGED <<phase, exitCode, storeVars, sessionVars, timers, initsInFlight,
                   lastDelay, reachedMax>>

\* toDataURL resolved: the qr handler resumes.
QrDone(qr) ==
    /\ Alive
    /\ BagIn(qr, pendingQR)
    /\ pendingQR' = pendingQR (-) SetToBag({qr})
    /\ latestQRCode' = toDataURL(qr)
    /\ isReady' = FALSE
    /\ reconnectAttempts' = 0
    /\ lastEvent' = Event("qr_done", <<>>)
    /\ UNCHANGED <<phase, exitCode, storeVars, isInitializing, timers, initsInFlight,
                   ghostVars>>

\* toDataURL rejected: the catch logs it.
QrFail(qr) ==
    /\ Alive
    /\ BagIn(qr, pendingQR)
    /\ pendingQR' = pendingQR (-) SetToBag({qr})
    /\ lastEvent' = Event("qr_fail", <<>>)
    /\ UNCHANGED <<phase, exitCode, storeVars, sessionVars, timers, initsInFlight,
                   ghostVars>>

\* Mutant of Ready: the reconnect counter is not reset.
ReadyNoReset ==
    /\ Alive
    /\ isReady' = TRUE
    /\ isInitializing' = FALSE
    /\ latestQRCode' = <<>>
    /\ lastStatus' = "ready"
    /\ lastEvent' = Event("ready", <<>>)
    /\ UNCHANGED <<phase, exitCode, storeVars, reconnectAttempts, asyncVars,
                   lastDelay, reachedMax>>

Ready ==
    /\ Alive
    /\ isReady' = TRUE
    /\ isInitializing' = FALSE
    /\ reconnectAttempts' = 0
    /\ latestQRCode' = <<>>
    /\ lastStatus' = "ready"
    /\ lastEvent' = Event("ready", <<>>)
    /\ UNCHANGED <<phase, exitCode, storeVars, asyncVars, lastDelay, reachedMax>>

\* Mutant of Authenticated: the handler marks the session ready.
AuthenticatedMarksReady ==
    /\ Alive
    /\ isReady' = TRUE
    /\ lastEvent' = Event("authenticated", <<>>)
    /\ UNCHANGED <<phase, exitCode, storeVars, latestQRCode, isInitializing,
                   reconnectAttempts, asyncVars, ghostVars>>

Authenticated ==
    /\ Alive
    /\ lastEvent' = Event("authenticated", <<>>)
    /\ UNCHANGED <<phase, exitCode, storeVars, sessionVars, asyncVars, ghostVars>>

AuthFailure ==
    /\ Alive
    /\ isReady' = FALSE
    /\ isInitializing' = FALSE
    /\ lastStatus' = "auth_failure"
    /\ lastEvent' = Event("auth_failure", <<>>)
    /\ UNCHANGED <<phase, exitCode, storeVars, latestQRCode, reconnectAttempts,
                   asyncVars, lastDelay, reachedMax>>

\* Mutant of shouldReconnect: the cap on the counter is missing.
shouldReconnectNoCap(attempts, initializing) == ~initializing

\* Mutant of shouldReconnect: the cap is off by one.
shouldReconnectOffByOne(attempts, initializing) ==
    attempts <= MAX_RECONNECT_ATTEMPTS /\ ~initializing

\* The condition under which the disconnected handler schedules a reinitialize.
shouldReconnect(attempts, initializing) ==
    attempts < MAX_RECONNECT_ATTEMPTS /\ ~initializing

\* Mutant of reconnectDelay: no backoff.
reconnectDelayFlat(attempts) == RECONNECT_DELAY

\* The delay of the timer scheduled when the counter, incremented, is `attempts`.
reconnectDelay(attempts) == RECONNECT_DELAY * attempts

Disconnected ==
    /\ Alive
    /\ isReady' = FALSE
    /\ latestQRCode' = <<>>
    /\ IF shouldReconnect(reconnectAttempts, isInitializing)
       THEN /\ Len(timers) < MaxTimers
            /\ reconnectAttempts' = reconnectAttempts + 1
            /\ timers' = Append(timers, reconnectDelay(reconnectAttempts'))
            /\ lastDelay' = reconnectDelay(reconnectAttempts')
            /\ reachedMax' = (reachedMax \/ reconnectAttempts' >= MAX_RECONNECT_ATTEMPTS)
       ELSE UNCHANGED <<reconnectAttempts, timers, lastDelay, reachedMax>>
    /\ lastStatus' = "disconnected"
    /\ lastEvent' = Event("disconnected", <<>>)
    /\ UNCHANGED <<phase, exitCode, storeVars, isInitializing, pendingQR, initsInFlight>>

\* The timers that can be the next to fire: all but those scheduled after a
\* timer with a delay no longer than their own, which expires before them.
CanFire(i) == \A j \in 1..(i - 1) : timers[j] > timers[i]

RemoveAt(seq, i) == SubSeq(seq, 1, i - 1) \o SubSeq(seq, i + 1, Len(seq))

\* The setTimeout callback of the i-th pending timer runs.
TimerFire(i) ==
    /\ Alive
    /\ i \in 1..Len(timers)
    /\ CanFire(i)
    /\ timers' = RemoveAt(timers, i)
    /\ IF ~isInitializing /\ ~isReady
       THEN /\ initsInFlight < MaxInits
            /\ isInitializing' = TRUE
            /\ initsInFlight' = initsInFlight + 1
       ELSE UNCHANGED <<isInitializing, initsInFlight>>
    /\ lastEvent' = Event("timer", <<>>)
    /\ UNCHANGED <<phase, exitCode, storeVars, latestQRCode, isReady, reconnectAttempts,
                   pendingQR, ghostVars>>

\* A client.initialize() promise resolves: nothing is chained on success.
InitResolve ==
    /\ Alive
    /\ initsInFlight > 0
    /\ initsInFlight' = initsInFlight - 1
    /\ lastEvent' = Event("init_resolved", <<>>)
    /\ UNCHANGED <<phase, exitCode, storeVars, sessionVars, pendingQR, timers, ghostVars>>

\* A client.initialize() promise rejects: the .catch clears the flag.
InitReject ==
    /\ Alive
    /\ initsInFlight > 0
    /\ initsInFlight' = initsInFlight - 1
    /\ isInitializing' = FALSE
    /\ lastEvent' = Event("init_rejected", <<>>)
    /\ UNCHANGED <<phase, exitCode, storeVars, latestQRCode, isReady, reconnectAttempts,
                   pendingQR, timers, ghostVars>>

LoadingScreen ==
    /\ Alive
    /\ lastEvent' = Event("loading_screen", <<>>)
    /\ UNCHANGED <<phase, exitCode, storeVars, sessionVars, asyncVars, ghostVars>>

ErrorEvent ==
    /\ Alive
    /\ lastEvent' = Event("error", <<>>)
    /\ UNCHANGED <<phase, exitCode, storeVars, sessionVars, asyncVars, ghostVars>>

---------------------------------------------------------------------------
(* Specifications.  The message handler and the process-level handlers     *)
(* read and write only the store variables; the lifecycle handlers read    *)
(* and write only the session variables.  SpecStore runs the former,       *)
(* SpecSession the latter, Spec all of them.                               *)

MessageStep == \E sender \in Senders : Message(sender)
ReplyOkStep == \E sender \in Senders, outcome \in WriteOutcomes : ReplyOk(sender, outcome)
ReplyFailStep == \E sender \in Senders : ReplyFail(sender)
SignalStep == \E outcome \in WriteOutcomes : Signal(outcome)
UncaughtExceptionStep == \E outcome \in WriteOutcomes : UncaughtException(outcome)
QrStep == \E qr \in QRPayloads : Qr(qr)
QrDoneStep == \E qr \in QRPayloads : QrDone(qr)
QrFailStep == \E qr \in QRPayloads : QrFail(qr)
TimerFireStep == \E i \in 1..Len(timers) : TimerFire(i)

NextStore ==
    \/ MessageStep
    \/ ReplyOkStep
    \/ ReplyFailStep
    \/ SignalStep
    \/ DestroyOk
    \/ DestroyFail
    \/ UncaughtExceptionStep
    \/ Restart

NextSession ==
    \/ QrStep
    \/ QrDoneStep
    \/ QrFailStep
    \/ Ready
    \/ Authenticated
    \/ AuthFailure
    \/ Disconnected
    \/ TimerFireStep
    \/ InitResolve
    \/ InitReject
    \/ LoadingScreen
    \/ ErrorEvent
    \/ Restart

Next == NextStore \/ NextSession

\* The events the WhatsApp client emits and the continuations of the two
\* handlers that await, in one running process.
NextClient ==
    \/ MessageStep
    \/ ReplyOkStep
    \/ ReplyFailStep
    \/ QrStep
    \/ QrDoneStep
    \/ QrFailStep
    \/ Ready
    \/ Authenticated
    \/ AuthFailure
    \/ Disconnected
    \/ LoadingScreen
    \/ ErrorEvent

SpecStore == Init /\ [][NextStore]_vars
SpecSession == Init /\ [][NextSession]_vars
SpecClient == Init /\ [][NextClient]_vars
Spec == Init /\ [][Next]_vars

\* SpecSession with the progress the runtime provides: a setTimeout callback
\* whose delay has elapsed is run by the event loop, and the promises the
\* handlers wait on (client.initialize(), qrcode.toDataURL) settle.  The
\* events the client emits are not forced to occur.
SessionFairness ==
    /\ WF_vars(TimerFireStep)
    /\ WF_vars(InitResolve \/ InitReject)
    /\ WF_vars(QrDoneStep \/ QrFailStep)

SpecSessionFair == Init /\ [][NextSession]_vars /\ SessionFairness

---------------------------------------------------------------------------
(* Vocabulary of the claims: the classification of a correspondent id      *)

GroupClassified(s) == EndsWith(s, <<"@g.us">>)
BroadcastClassified(s) == s = StatusBroadcast
PrivateClassified(s) == ~GroupClassified(s) /\ ~BroadcastClassified(s)

Count(arr, x) == Cardinality({i \in 1..Len(arr) : arr[i] = x})

FileUnreadable(f) == ~f.exists \/ ~JSONWellFormed(f.text)

---------------------------------------------------------------------------
(* Claims checked under SpecStore *)

\* C1: for every private correspondent id, at most one reply send to that id
\* ever completes successfully, also when a second message from the same
\* sender arrives while the reply send for the first is still pending.
C1_AtMostOneSuccessfulReply ==
    \A s \in Senders : PrivateClassified(s) => repliesSent[s] <= 1

\* C2: a message event from a private id not in the store causes exactly one
\* send attempt; when that send succeeds the id is added to the store exactly
\* once; a message event from the same id handled after that causes no send
\* attempt and changes neither the store nor the file.
C2_OneAttemptThenNone ==
    [][\A s \in Senders :
         /\ (PrivateClassified(s) /\ ~Includes(repliedNumbers, s) /\ Message(s))
               => /\ CopiesIn(s, pendingReplies') = CopiesIn(s, pendingReplies) + 1
                  /\ BagCardinality(pendingReplies') = BagCardinality(pendingReplies) + 1
         /\ (\E o \in WriteOutcomes : ReplyOk(s, o))
               => /\ Count(repliedNumbers', s) = Count(repliedNumbers, s) + 1
                  /\ Len(repliedNumbers') = Len(repliedNumbers) + 1
         /\ (repliesSent[s] >= 1 /\ Message(s))
               => UNCHANGED <<pendingReplies, repliedNumbers, file>>
      ]_vars

\* A message from Private1 has just been handled without a send, after a
\* reply to Private1 had succeeded.
C2_Witness ==
    /\ lastEvent = Event("message", Private1)
    /\ repliesSent[Private1] = 1
    /\ pendingReplies = EmptyBag
    /\ Includes(repliedNumbers, Private1)

\* C3: when a reply send fails, the store (in memory and on disk) and the
\* session state are left as they were, the sender is absent from the store,
\* and the next message from that sender triggers a new send attempt.
C3_FailedSendLeavesSenderAbsent ==
    [][\A s \in Senders :
         ReplyFail(s)
            => /\ UNCHANGED <<repliedNumbers, file, sessionVars>>
               /\ ~Includes(repliedNumbers', s)
               /\ messageDecision(s, repliedNumbers') = "send"
      ]_vars

\* C4: a message event from a group-classified id or from the broadcast
\* sentinel never causes a send attempt, never changes repliedNumbers and
\* never writes the file.
C4_GroupAndBroadcastIgnored ==
    /\ [](\A s \in Senders :
            (GroupClassified(s) \/ BroadcastClassified(s))
               => ~BagIn(s, pendingReplies) /\ repliesSent[s] = 0)
    /\ [][\A s \in Senders :
            ((GroupClassified(s) \/ BroadcastClassified(s)) /\ Message(s))
               => UNCHANGED <<pendingReplies, repliedNumbers, file, lastWrite>>
         ]_vars

\* A group message has just been handled while the store was empty and no
\* send was in flight: a private sender would have been replied to.
C4_Witness ==
    /\ lastEvent = Event("message", Group1)
    /\ repliedNumbers = <<>>
    /\ pendingReplies = EmptyBag
    /\ phase = "running"

\* C5: repliedNumbers holds each correspondent id at most once, whatever the
\* order and overlap of message events.
C5_NoDuplicates ==
    \A i, j \in 1..Len(repliedNumbers) :
        i # j => repliedNumbers[i] # repliedNumbers[j]

\* C6 as stated: every id added to the store is a member from then on, and is
\* still a member after the process restarts and reloads the file.
C6_AlwaysSurvivesRestart ==
    [][\A s \in Senders : Includes(repliedNumbers, s) => Includes(repliedNumbers', s)]_vars

\* C6 amended: every id in the store stays a member while the process runs,
\* and is still a member after a restart provided the last write of the file
\* before the restart did not fail.
C6_SurvivesRestartAfterGoodWrite ==
    [][\A s \in Senders :
         /\ (Includes(repliedNumbers, s) /\ ~Restart) => Includes(repliedNumbers', s)
         /\ (Includes(repliedNumbers, s) /\ Restart /\ lastWrite # "failed")
               => Includes(repliedNumbers', s)
      ]_vars

\* The process has just restarted and has Private2 in the store: no initial
\* file holds it, so it was added, saved and reloaded.
C6_Witness ==
    /\ lastEvent = Event("start", <<>>)
    /\ Includes(repliedNumbers, Private2)

\* C7: right after startup on a missing or unparseable file the store is
\* empty, no error was raised (the process runs) and client initialization
\* was started.
C7_LoadNeverRaises ==
    (lastEvent = Event("start", <<>>) /\ FileUnreadable(file))
       => /\ repliedNumbers = <<>>
          /\ phase = "running"
          /\ exitCode = -1
          /\ isInitializing
          /\ initsInFlight = 1

\* The process has just restarted on a file that a failed write had cut off.
C7_Witness ==
    /\ lastEvent = Event("start", <<>>)
    /\ file = FileWith(<<>>)
    /\ repliedNumbers = <<>>
    /\ phase = "running"

---------------------------------------------------------------------------
(* Claims checked under SpecSession *)

\* A step of the disconnected handler that schedules a reinitialize timer.
SchedulesReconnect == Disconnected /\ timers' # timers

\* C8: in every reachable state the reconnect counter is an integer between
\* 0 and MAX_RECONNECT_ATTEMPTS inclusive.
C8_CounterInRange ==
    reconnectAttempts \in 0..MAX_RECONNECT_ATTEMPTS

\* The counter is at its maximum and the fifth timer is still pending.
C8_Witness ==
    /\ reconnectAttempts = MAX_RECONNECT_ATTEMPTS
    /\ Includes(timers, reconnectDelay(MAX_RECONNECT_ATTEMPTS))

\* C9 as stated: once the counter has reached MAX_RECONNECT_ATTEMPTS, no
\* later disconnected event schedules a reinitialize.
C9_NeverSchedulesAfterMax ==
    [][(reachedMax /\ Disconnected) => timers' = timers]_vars

\* C9 amended: while the counter is at MAX_RECONNECT_ATTEMPTS no disconnected
\* event schedules a reinitialize, and every timer is scheduled by a step that
\* raises the counter by one from a value below the maximum, so at most
\* MAX_RECONNECT_ATTEMPTS timers are scheduled between two resets of the
\* counter.
C9_NoScheduleWhileAtMax ==
    [][/\ (reconnectAttempts >= MAX_RECONNECT_ATTEMPTS /\ Disconnected)
             => UNCHANGED <<timers, reconnectAttempts, isInitializing, initsInFlight>>
       /\ Len(timers') > Len(timers)
             => /\ reconnectAttempts < MAX_RECONNECT_ATTEMPTS
                /\ reconnectAttempts' = reconnectAttempts + 1
                /\ Len(timers') = Len(timers) + 1
      ]_vars

\* A disconnected event has just been handled with the counter at its maximum
\* and nothing initializing: no timer is pending, so it scheduled none.
C9_Witness ==
    /\ lastEvent = Event("disconnected", <<>>)
    /\ reconnectAttempts = MAX_RECONNECT_ATTEMPTS
    /\ ~isInitializing
    /\ timers = <<>>

---------------------------------------------------------------------------
(* Further claims checked under SpecSession *)

\* What GET /api/status reports of the session.
StatusSnapshot == [isReady |-> isReady, hasQR |-> latestQRCode # <<>>,
                   reconnectAttempts |-> reconnectAttempts]

\* C11: at most one client.initialize() call is in flight at any time: the
\* initial call and every timer-driven call start only when no earlier call
\* is still pending and the session is not ready.
C11_AtMostOneInitializeInFlight ==
    /\ [](initsInFlight <= 1)
    /\ [][initsInFlight' > initsInFlight => (initsInFlight = 0 /\ ~isReady)]_vars

\* C12: whenever the most recent status-changing event is ready,
\* disconnected or auth_failure, no QR payload is cached (hasQR is false).
C12_QROnlyWhileAwaitingScan ==
    lastStatus \in {"ready", "disconnected", "auth_failure"} => ~StatusSnapshot.hasQR

\* C13: once a ready event has been handled and no later qr, auth_failure or
\* disconnected event has been emitted, the status snapshot reports
\* ready = true and hasQR = false, even if a qr event emitted before that
\* ready was still generating its QR image.
C13_SnapshotReflectsReady ==
    lastStatus = "ready" => (StatusSnapshot.isReady /\ ~StatusSnapshot.hasQR)

---------------------------------------------------------------------------
(* Claims checked under SpecClient *)

\* A handler of a client event starts running.
HandlerStarts ==
    \/ MessageStep
    \/ QrStep
    \/ Ready
    \/ Authenticated
    \/ AuthFailure
    \/ Disconnected
    \/ LoadingScreen
    \/ ErrorEvent

\* A message handler is suspended at `await msg.reply`.
MessageHandlerSuspended == pendingReplies # EmptyBag

\* C14: each event is handled to completion before the next handler starts:
\* while a message handler is suspended at its reply send, no other message
\* handler and no lifecycle handler starts.
C14_HandlersRunToCompletion ==
    [][MessageHandlerSuspended => ~HandlerStarts]_vars

---------------------------------------------------------------------------
(* Claims checked under SpecStore, continued *)

\* The ids a restart would load from the file.
FileIds == loadRepliedNumbers(file).store

\* Every correspondent whose reply send succeeded in this run is in the file.
FileHoldsEveryReplied ==
    \A s \in Senders : repliesSent[s] >= 1 => Includes(FileIds, s)

\* C15 as stated: on exit after a termination signal the file contains every
\* id whose reply send had succeeded.
C15_FileAtExitHoldsEveryReplied ==
    phase = "exited" => FileHoldsEveryReplied

\* C15 amended: a termination signal first writes the store and requests
\* destroy; the process exits only after that, with code 0 if destroy
\* succeeded and 1 if it failed, and never before a write was attempted; if
\* the last write before the exit succeeded, the file contains every id whose
\* reply send had succeeded.
C15_ShutdownSequence ==
    /\ [][SignalStep => /\ \E outcome \in WriteOutcomes :
                              file' = saveRepliedNumbers(file, repliedNumbers, outcome)
                        /\ phase' = "shutting"
                        /\ lastWrite' # "none"]_vars
    /\ [][(phase # "exited" /\ phase' = "exited")
             => /\ phase = "shutting"
                /\ lastWrite # "none"
                /\ UNCHANGED file
                /\ DestroyOk => exitCode' = 0
                /\ DestroyFail => exitCode' = 1
                /\ DestroyOk \/ DestroyFail]_vars
    /\ []((phase = "exited" /\ lastWrite = "ok") => FileHoldsEveryReplied)

\* The process has exited with code 0 after a successful write and the file
\* holds Private2, whose reply was sent in this run.
C15_Witness ==
    /\ phase = "exited"
    /\ exitCode = 0
    /\ lastWrite = "ok"
    /\ repliesSent[Private2] = 1
    /\ Includes(FileIds, Private2)

\* C16: every id in the store was loaded at startup or is the sender of a
\* message whose reply had completed successfully when it was added: at
\* process start the store is what loadRepliedNumbers read; after that the
\* store changes only by appending the sender of a reply that has just
\* succeeded; no id is added without a confirmed send and none is removed.
C16_OnlyConfirmedSendersAdded ==
    /\ [][Restart => repliedNumbers' = FileIds]_vars
    /\ [][(~Restart /\ repliedNumbers' # repliedNumbers)
             => \E s \in Senders :
                   /\ BagIn(s, pendingReplies)
                   /\ repliesSent'[s] = repliesSent[s] + 1
                   /\ repliedNumbers' = Append(repliedNumbers, s)]_vars
    /\ [][~Restart => /\ Len(repliedNumbers') >= Len(repliedNumbers)
                      /\ SubSeq(repliedNumbers', 1, Len(repliedNumbers)) = repliedNumbers]_vars

\* A reply to Private2 has just succeeded and Private2 was added to a store
\* that already held an id loaded at startup.
C16_Witness ==
    /\ lastEvent = Event("reply_ok", Private2)
    /\ repliesSent[Private2] = 1
    /\ repliedNumbers = <<Private1, Private2>>
    /\ repliesSent[Private1] = 0

\* A handler that calls saveRepliedNumbers runs.
SaveStep == ReplyOkStep \/ SignalStep \/ UncaughtExceptionStep

\* C17: when the save after adding an id fails, the id stays in the
\* in-memory store, so a later message from it gets no reply, and the handler
\* completes without error (the process keeps running); whenever a save
\* succeeds, the file holds exactly the whole in-memory store in insertion
\* order, including ids whose earlier save had failed.
C17_SaveFailureKeepsIdInMemory ==
    /\ [][\A s \in Senders, outcome \in WriteOutcomes \ {"ok"} :
            ReplyOk(s, outcome)
               => /\ repliedNumbers'[Len(repliedNumbers')] = s
                  /\ messageDecision(s, repliedNumbers') = "existing"
                  /\ lastWrite' = "failed"
                  /\ phase' = phase
                  /\ exitCode' = exitCode]_vars
    /\ [][\A s \in Senders :
            (Message(s) /\ Includes(repliedNumbers, s))
               => UNCHANGED <<pendingReplies, repliesSent>>]_vars
    /\ [][(SaveStep /\ lastWrite' = "ok")
             => /\ file' = FileWith(JSONStringify(repliedNumbers'))
                /\ loadRepliedNumbers(file').store = repliedNumbers']_vars

\* The save after the reply to Private2 failed, Private2 is in memory but not
\* in the file, and a later message from Private2 has been handled without a
\* send.
C17_Witness ==
    /\ lastEvent = Event("message", Private2)
    /\ lastWrite = "failed"
    /\ repliesSent[Private2] = 1
    /\ Includes(repliedNumbers, Private2)
    /\ ~Includes(FileIds, Private2)
    /\ pendingReplies = EmptyBag
    /\ phase = "running"

---------------------------------------------------------------------------
(* Claims checked under SpecClient, continued *)

\* The step just taken ran the handler (or a continuation of the handler) of
\* one of the named events.
Handled(names) == lastEvent'.name \in names

\* C18: the authenticated, error, loading_screen and message events leave
\* every session field unchanged (ready flag, QR payload, reconnect counter,
\* initializing flag, pending reconnect timers); authenticated, error and
\* loading_screen also leave the reply store and its file unchanged.
C18_PassiveEventsLeaveSessionAlone ==
    /\ [][Handled({"authenticated", "error", "loading_screen",
                   "message", "reply_ok", "reply_fail"})
             => UNCHANGED <<latestQRCode, isReady, reconnectAttempts, isInitializing,
                            timers>>]_vars
    /\ [][Handled({"authenticated", "error", "loading_screen"})
             => UNCHANGED <<repliedNumbers, file, pendingReplies>>]_vars

\* An authenticated event has been handled in a session that is not ready,
\* has a QR payload cached and a reconnect timer pending, next to a store
\* that holds a replied id.
C18_Witness ==
    /\ lastEvent = Event("authenticated", <<>>)
    /\ ~isReady
    /\ latestQRCode # <<>>
    /\ timers # <<>>
    /\ repliesSent[Private1] = 1

---------------------------------------------------------------------------
(* Claims checked under SpecSession, continued *)

\* The qr handler has just run to its end, by either branch.
QrHandled == lastEvent.name \in {"qr_done", "qr_fail"}

\* C19 as stated: after every qr event and every ready event has been
\* handled the reconnect counter is 0; after a qr event the session is also
\* not ready and a QR payload is cached.
C19_CounterZeroAfterQrOrReady ==
    /\ (QrHandled \/ lastEvent.name = "ready") => reconnectAttempts = 0
    /\ QrHandled => (~isReady /\ latestQRCode # <<>>)

\* C19 amended: after every ready event, and after every qr event whose QR
\* image was generated, the reconnect counter is 0; after such a qr event the
\* session is also not ready and the QR payload is cached.  A qr event whose
\* image generation fails leaves every session field as it was.
C19_CounterZeroAfterGeneratedQrOrReady ==
    /\ []((lastEvent.name \in {"qr_done", "ready"}) => reconnectAttempts = 0)
    /\ [](lastEvent.name = "qr_done"
            => (~isReady /\ latestQRCode \in {toDataURL(qr) : qr \in QRPayloads}))
    /\ [][Handled({"qr", "qr_fail"}) => UNCHANGED sessionVars]_vars

\* A qr event's image has just been generated in a session that had
\* scheduled a reconnect (its timer is still pending): the counter, raised
\* by the disconnect, is back at 0.
C19_Witness ==
    /\ lastEvent.name = "qr_done"
    /\ timers # <<>>
    /\ lastDelay > 0
    /\ reconnectAttempts = 0
    /\ latestQRCode # <<>>

---------------------------------------------------------------------------
(* Claim checked under SpecSessionFair *)

\* A disconnected event has just been handled with the counter below the cap.
DisconnectedBelowMax ==
    /\ lastEvent = Event("disconnected", <<>>)
    /\ reconnectAttempts < MAX_RECONNECT_ATTEMPTS

\* The session is ready, or a reconnect timer callback has run (it calls
\* client.initialize() unless a call is already flagged), or the process was
\* started again (which calls client.initialize()).
ReinitializedOrReady ==
    \/ isReady
    \/ lastEvent.name = "timer"
    \/ lastEvent.name = "start"

\* C20: after any disconnected event handled while the reconnect counter is
\* below MAX_RECONNECT_ATTEMPTS, the controller eventually invokes
\* client.initialize() again or the session becomes ready, provided timers
\* fire and pending promises settle.
C20_DisconnectLeadsToReinitialize ==
    DisconnectedBelowMax ~> ReinitializedOrReady

====
